---- MODULE Spec2Model ----
(***************************************************************************)
(* redis_logger: a log sink that forwards log records to Redis pub/sub     *)
(* channels and streams in one pipelined request per record.               *)
(*                                                                         *)
(* Spec       models src/src/lib.rs: the construction paths of             *)
(*            RedisLoggerConfig, RedisLogger::new and concurrent calls of  *)
(*            Log::log on one logger, one call per thread.                 *)
(* SpecEnabled models direct calls of Log::enabled for every severity and  *)
(*            threshold.                                                   *)
(* SpecFluent models the fluent, Result-returning builder that             *)
(*            src/src/lib_tests.rs exercises and src/src/error.rs declares *)
(*            the errors of; its code is not part of src/src/lib.rs.       *)
(*                                                                         *)
(* Environment assumptions: an encoder returns (it is total), eprintln!    *)
(* succeeds in writing to stderr, and the transport call made under the    *)
(* lock may return Ok, return Err, or panic.                               *)
(***************************************************************************)
EXTENDS Integers, Sequences, FiniteSets, TLC

(* ------------------------------ bounds -------------------------------- *)
NumThreads == 2
MaxNames == 2

Threads == 1..NumThreads

(* ----------------------- Option<T> as a set --------------------------- *)
None == {}
Some(x) == {x}
IsSome(o) == o # {}
Unwrap(o) == CHOOSE x \in o : TRUE

(* --------------------- log::Level / LevelFilter ----------------------- *)
Levels == {"Error", "Warn", "Info", "Debug", "Trace"}
LevelFilters == {"Off"} \cup Levels
\* Spec draws the threshold and the severities of the logged records from
\* these: under "Info" a "Warn" record is enabled and a "Debug" record is not,
\* under "Off" nothing is. SpecEnabled covers every severity and threshold.
DispatchFilters == {"Off", "Info"}
DispatchLevels == {"Warn", "Debug"}

\* `as usize` of log::Level and log::LevelFilter
LevelAsUsize(l) ==
    CASE l = "Off" -> 0
      [] l = "Error" -> 1
      [] l = "Warn" -> 2
      [] l = "Info" -> 3
      [] l = "Debug" -> 4
      [] l = "Trace" -> 5

EnabledAlways(recordLevel, filter) == TRUE
EnabledStrict(recordLevel, filter) == LevelAsUsize(recordLevel) < LevelAsUsize(filter)
\* RedisLogger::enabled: metadata.level() <= self.level
Enabled(recordLevel, filter) == LevelAsUsize(recordLevel) <= LevelAsUsize(filter)

(* ------------------------- names and lists ---------------------------- *)
\* Vec<String> of n distinct names of one kind ("channel" / "stream")
NameList(kind, n) == [i \in 1..n |-> <<kind, i>>]
ChannelLists == {NameList("channel", n) : n \in 0..MaxNames}
StreamLists == {NameList("stream", n) : n \in 0..MaxNames}
ConnectionStrs == {"valid", "invalid"}

VARIABLES
    temp,        \* Option<RedisLoggerConfigTemp>
    config,      \* Option<RedisLoggerConfig> (channels, streams; connection below)
    level,       \* Option<LevelFilter>: RedisLogger.level once the logger exists
    ctorPanic,   \* the constructing thread panicked
    lockHolder,  \* config.connection: the thread holding the MutexGuard, 0 = free
    poisoned,    \* config.connection: the Mutex poison flag
    pc,          \* per thread: position inside Log::log
    rec,         \* per thread: the record of the current call
    pipe,        \* per thread: the redis::Pipeline being built
    sent,        \* per thread: commands of the pipeline written to the connection
    encPub,      \* per thread and call: PubSubEncoder::encode invocations
    encStream,   \* per thread and call: StreamEncoder::encode invocations
    lockAcq,     \* per thread and call: connection.lock() invocations
    submitted,   \* per thread and call: sequence of batches handed to pipe.query
    outcome,     \* per thread and call: result of pipe.query
    reports,     \* per thread and call: eprintln! invocations
    wire,        \* commands received by the connection, in order
    failures,    \* pipe.query calls that returned Err
    queryPanics, \* pipe.query calls that panicked
    priorFailures, \* per thread and call: failures when the call was entered
    enabledCall, \* per thread: <<level, result>> of its last direct Log::enabled call
    fb,          \* the fluent RedisLoggerConfigBuilder: its three slots
    fbResult,    \* Option<Result<RedisLoggerConfig, RedisLoggerConfigError>> of build()
    supplied,    \* Option: the channels and streams arguments of the construction call
    lastSupplied, \* per slot of the fluent builder: the argument of the last call,
                 \* and the argument of the with_pubsub call before the last
    lastFlush,   \* Option: the state of the connection Mutex at the last Log::flush
    encIn,       \* Option<log::Record> handed to the default encoders
    encPubOut,   \* Option: DefaultPubSubEncoder::encode of encIn
    encStreamOut \* Option: DefaultStreamEncoder::encode of encIn

vars == <<temp, config, level, ctorPanic, lockHolder, poisoned, pc, rec, pipe,
          sent, encPub, encStream, lockAcq, submitted, outcome, reports, wire,
          failures, queryPanics, priorFailures, enabledCall, fb, fbResult,
          supplied, lastSupplied, lastFlush, encIn, encPubOut, encStreamOut>>

ctorVars == <<temp, config, level, ctorPanic, supplied>>
connVars == <<lockHolder, poisoned>>
callVars == <<pc, rec, pipe, sent, encPub, encStream, lockAcq, submitted,
              outcome, reports, wire, failures, queryPanics, priorFailures>>

encVars == <<encIn, encPubOut, encStreamOut>>
otherVars == <<enabledCall, fb, fbResult, lastSupplied, lastFlush, encVars>>

NoThread == 0
NoRecord == [level |-> "Off", id |-> 0]

\* no thread has called into the logger yet; the connection Mutex is fresh
NoCallsYet ==
    /\ lockHolder = NoThread
    /\ poisoned = FALSE
    /\ pc = [t \in Threads |-> "idle"]
    /\ rec = [t \in Threads |-> NoRecord]
    /\ pipe = [t \in Threads |-> <<>>]
    /\ sent = [t \in Threads |-> 0]
    /\ encPub = [t \in Threads |-> 0]
    /\ encStream = [t \in Threads |-> 0]
    /\ lockAcq = [t \in Threads |-> 0]
    /\ submitted = [t \in Threads |-> <<>>]
    /\ outcome = [t \in Threads |-> "none"]
    /\ reports = [t \in Threads |-> 0]
    /\ wire = <<>>
    /\ failures = 0
    /\ queryPanics = 0
    /\ priorFailures = [t \in Threads |-> 0]
    /\ enabledCall = [t \in Threads |-> <<>>]
    /\ lastFlush = None

\* no default encoder has been handed a record
NoEncoding ==
    /\ encIn = None
    /\ encPubOut = None
    /\ encStreamOut = None

\* the fluent builder right after RedisLoggerConfigBuilder::new()
FluentNew == [redis_conn |-> None, channels |-> None, streams |-> None]
\* no builder step has been called: no last argument, no earlier one
NothingSupplied ==
    [redis_conn |-> None, channels |-> None, streams |-> None,
     earlier_channels |-> None]

Init ==
    /\ temp = None
    /\ config = None
    /\ level = None
    /\ ctorPanic = FALSE
    /\ NoCallsYet
    /\ NoEncoding
    /\ fb = FluentNew
    /\ fbResult = None
    /\ supplied = None
    /\ lastSupplied = NothingSupplied

(* ------------------------- construction ------------------------------- *)
NothingBuilt == temp = None /\ config = None /\ level = None /\ ~ctorPanic

\* RedisLoggerConfigTemp::new
RedisLoggerConfigTempNew(connection_str, channels, streams) ==
    [connection_str |-> connection_str, channels |-> channels, streams |-> streams]

\* RedisLoggerConfig::new (the connection Mutex is lockHolder/poisoned)
RedisLoggerConfigNewDropStreams(channels, streams) ==
    [channels |-> channels, streams |-> None]

RedisLoggerConfigNew(channels, streams) ==
    [channels |-> channels, streams |-> streams]

\* RedisLoggerConfigBuilder::check_args: assert!(value)
check_args(value) == value

\* RedisLoggerConfigBuilder::with_pubsub / with_pubsub_default
with_pubsubDummyStreams(connection_str, channels) ==
    /\ NothingBuilt
    /\ supplied' = Some([channels |-> Some(channels), streams |-> None])
    /\ IF check_args(Len(channels) # 0)
       THEN /\ temp' = Some(RedisLoggerConfigTempNew(connection_str, Some(channels), Some(<<>>)))
            /\ UNCHANGED ctorPanic
       ELSE /\ ctorPanic' = TRUE
            /\ UNCHANGED temp
    /\ UNCHANGED <<config, level, connVars, callVars, otherVars>>

with_pubsub(connection_str, channels) ==
    /\ NothingBuilt
    /\ supplied' = Some([channels |-> Some(channels), streams |-> None])
    /\ IF check_args(Len(channels) # 0)
       THEN /\ temp' = Some(RedisLoggerConfigTempNew(connection_str, Some(channels), None))
            /\ UNCHANGED ctorPanic
       ELSE /\ ctorPanic' = TRUE
            /\ UNCHANGED temp
    /\ UNCHANGED <<config, level, connVars, callVars, otherVars>>

\* RedisLoggerConfigBuilder::with_streams / with_streams_default
with_streams(connection_str, streams) ==
    /\ NothingBuilt
    /\ supplied' = Some([channels |-> None, streams |-> Some(streams)])
    /\ IF check_args(Len(streams) # 0)
       THEN /\ temp' = Some(RedisLoggerConfigTempNew(connection_str, None, Some(streams)))
            /\ UNCHANGED ctorPanic
       ELSE /\ ctorPanic' = TRUE
            /\ UNCHANGED temp
    /\ UNCHANGED <<config, level, connVars, callVars, otherVars>>

\* RedisLoggerConfigBuilder::with_pubsub_and_streams / ..._default
with_pubsub_and_streams(connection_str, channels, streams) ==
    /\ NothingBuilt
    /\ supplied' = Some([channels |-> Some(channels), streams |-> Some(streams)])
    /\ IF check_args(Len(channels) # 0 /\ Len(streams) # 0)
       THEN /\ temp' = Some(RedisLoggerConfigTempNew(connection_str, Some(channels), Some(streams)))
            /\ UNCHANGED ctorPanic
       ELSE /\ ctorPanic' = TRUE
            /\ UNCHANGED temp
    /\ UNCHANGED <<config, level, connVars, callVars, otherVars>>

\* a direct call of the public RedisLoggerConfigTemp::new
TempNew(connection_str, channels, streams) ==
    /\ NothingBuilt
    /\ temp' = Some(RedisLoggerConfigTempNew(connection_str, channels, streams))
    /\ supplied' = Some([channels |-> channels, streams |-> streams])
    /\ UNCHANGED <<config, level, ctorPanic, connVars, callVars, otherVars>>

\* RedisLoggerConfigTemp::build: open(..).unwrap(), get_connection().unwrap()
TempBuild ==
    /\ IsSome(temp)
    /\ ~ctorPanic
    /\ LET t == Unwrap(temp) IN
       IF t.connection_str = "valid"
       THEN /\ config' = Some(RedisLoggerConfigNew(t.channels, t.streams))
            /\ UNCHANGED ctorPanic
       ELSE /\ ctorPanic' = TRUE
            /\ UNCHANGED config
    /\ temp' = None
    /\ UNCHANGED <<level, supplied, connVars, callVars, otherVars>>

\* a direct call of the public RedisLoggerConfig::new with an open Connection
ConfigNew(channels, streams) ==
    /\ NothingBuilt
    /\ config' = Some(RedisLoggerConfigNew(channels, streams))
    /\ supplied' = Some([channels |-> channels, streams |-> streams])
    /\ UNCHANGED <<temp, level, ctorPanic, connVars, callVars, otherVars>>

\* RedisLogger::new
LoggerNew(lvl) ==
    /\ IsSome(config)
    /\ level = None
    /\ level' = Some(lvl)
    /\ UNCHANGED <<temp, config, ctorPanic, supplied, connVars, callVars, otherVars>>

(* ----------------------------- Log::log ------------------------------- *)
TheConfig == Unwrap(config)

\* the bytes an encoder returns at its nth invocation for a record
PubSubEncode(record, nth) == [enc |-> "pubsub", rec |-> record.id, nth |-> nth]
StreamEncode(record, nth) == [enc |-> "stream", rec |-> record.id, nth |-> nth]

\* pipe.publish(channel, &message)
PublishCmd(channel, message) == [op |-> "PUBLISH", key |-> channel, id |-> "", arg |-> message]
\* pipe.xadd(stream, "*", message)
XaddCmd(stream, message) == [op |-> "XADD", key |-> stream, id |-> "*", arg |-> message]

PublishAllButLast(channels, message) ==
    [i \in 1..(Len(channels) - 1) |-> PublishCmd(channels[i], message)]
\* for channel in channels { pipe.publish(channel, &message); }
PublishAll(channels, message) ==
    [i \in 1..Len(channels) |-> PublishCmd(channels[i], message)]

\* for stream in streams { pipe.xadd(stream, "*", message); }
XaddAllEncodingPerStream(streams, message) ==
    [i \in 1..Len(streams) |-> XaddCmd(streams[i], [message EXCEPT !.nth = i])]

XaddAll(streams, message) ==
    [i \in 1..Len(streams) |-> XaddCmd(streams[i], message)]

\* Each thread calls log once and the record's id is the thread's: log keeps
\* no per-thread state, so successive calls of one thread are the runs in
\* which the calls of two threads do not overlap.
\* entry of log: if self.enabled(record.metadata()) { let mut pipe = redis::pipe(); ..
LogEnter(t, lvl) ==
    /\ IsSome(level)
    /\ pc[t] = "idle"
    /\ rec' = [rec EXCEPT ![t] = [level |-> lvl, id |-> t]]
    /\ pipe' = [pipe EXCEPT ![t] = <<>>]
    /\ sent' = [sent EXCEPT ![t] = 0]
    /\ encPub' = [encPub EXCEPT ![t] = 0]
    /\ encStream' = [encStream EXCEPT ![t] = 0]
    /\ lockAcq' = [lockAcq EXCEPT ![t] = 0]
    /\ submitted' = [submitted EXCEPT ![t] = <<>>]
    /\ outcome' = [outcome EXCEPT ![t] = "none"]
    /\ reports' = [reports EXCEPT ![t] = 0]
    /\ priorFailures' = [priorFailures EXCEPT ![t] = failures]
    /\ pc' = [pc EXCEPT ![t] = IF Enabled(lvl, Unwrap(level)) THEN "pubsub" ELSE "returned"]
    /\ UNCHANGED <<ctorVars, otherVars, connVars, wire, failures, queryPanics>>

\* the same with the connection locked before the encoder runs
PipePubSubHoldingLock(t) ==
    /\ pc[t] = "pubsub"
    /\ lockHolder = NoThread
    /\ lockHolder' = t
    /\ lockAcq' = [lockAcq EXCEPT ![t] = @ + 1]
    /\ IF IsSome(TheConfig.channels)
       THEN LET message == PubSubEncode(rec[t], encPub[t] + 1) IN
            /\ encPub' = [encPub EXCEPT ![t] = @ + 1]
            /\ pipe' = [pipe EXCEPT ![t] = @ \o PublishAll(Unwrap(TheConfig.channels), message)]
       ELSE UNCHANGED <<encPub, pipe>>
    /\ pc' = [pc EXCEPT ![t] = "streams"]
    /\ UNCHANGED <<ctorVars, otherVars, priorFailures, poisoned, rec, sent, encStream,
                   submitted, outcome, reports, wire, failures, queryPanics>>

\* if let Some((channels, encoder)) = &config.channels { encode once; publish to each }
PipePubSub(t) ==
    /\ pc[t] = "pubsub"
    /\ IF IsSome(TheConfig.channels)
       THEN LET message == PubSubEncode(rec[t], encPub[t] + 1) IN
            /\ encPub' = [encPub EXCEPT ![t] = @ + 1]
            /\ pipe' = [pipe EXCEPT ![t] = @ \o PublishAll(Unwrap(TheConfig.channels), message)]
       ELSE UNCHANGED <<encPub, pipe>>
    /\ pc' = [pc EXCEPT ![t] = "streams"]
    /\ UNCHANGED <<ctorVars, otherVars, priorFailures, connVars, rec, sent, encStream, lockAcq, submitted,
                   outcome, reports, wire, failures, queryPanics>>

\* if let Some((streams, encoder)) = &config.streams { encode once; xadd to each }
PipeStreams(t) ==
    /\ pc[t] = "streams"
    /\ IF IsSome(TheConfig.streams)
       THEN LET message == StreamEncode(rec[t], encStream[t] + 1) IN
            /\ encStream' = [encStream EXCEPT ![t] = @ + 1]
            /\ pipe' = [pipe EXCEPT ![t] = @ \o XaddAll(Unwrap(TheConfig.streams), message)]
       ELSE UNCHANGED <<encStream, pipe>>
    /\ pc' = [pc EXCEPT ![t] = "lock"]
    /\ UNCHANGED <<ctorVars, otherVars, priorFailures, connVars, rec, sent, encPub, lockAcq, submitted,
                   outcome, reports, wire, failures, queryPanics>>

MutexAlwaysAvailable == TRUE
\* Mutex::lock blocks until no other thread holds the guard
MutexAvailable == lockHolder = NoThread

\* the same with the poison flag ignored (the guard recovered from the PoisonError)
LockIgnoringPoison(t) ==
    /\ pc[t] = "lock"
    /\ MutexAvailable
    /\ lockAcq' = [lockAcq EXCEPT ![t] = @ + 1]
    /\ lockHolder' = t
    /\ submitted' = [submitted EXCEPT ![t] = Append(@, pipe[t])]
    /\ pc' = [pc EXCEPT ![t] = "query"]
    /\ UNCHANGED <<ctorVars, otherVars, priorFailures, poisoned, rec, pipe, sent, encPub,
                   encStream, outcome, reports, wire, failures, queryPanics>>

\* config.connection.lock().unwrap(), then pipe.query is entered with the guard
Lock(t) ==
    /\ pc[t] = "lock"
    /\ MutexAvailable
    /\ lockAcq' = [lockAcq EXCEPT ![t] = @ + 1]
    /\ IF poisoned
       THEN \* lock() returns Err(PoisonError), unwrap panics, the guard is dropped
            /\ pc' = [pc EXCEPT ![t] = "panicked"]
            /\ UNCHANGED <<lockHolder, submitted>>
       ELSE /\ lockHolder' = t
            /\ submitted' = [submitted EXCEPT ![t] = Append(@, pipe[t])]
            /\ pc' = [pc EXCEPT ![t] = "query"]
    /\ UNCHANGED <<ctorVars, otherVars, priorFailures, poisoned, rec, pipe, sent, encPub, encStream,
                   outcome, reports, wire, failures, queryPanics>>

\* pipe.query: the connection receives the next command of the pipeline
QuerySend(t) ==
    /\ pc[t] = "query"
    /\ sent[t] < Len(pipe[t])
    /\ wire' = Append(wire, [call |-> rec[t].id, cmd |-> pipe[t][sent[t] + 1]])
    /\ sent' = [sent EXCEPT ![t] = @ + 1]
    /\ UNCHANGED <<ctorVars, otherVars, priorFailures, connVars, pc, rec, pipe, encPub, encStream, lockAcq,
                   submitted, outcome, reports, failures, queryPanics>>

\* pipe.query returns Ok(()): the if-let does not match
QueryOk(t) ==
    /\ pc[t] = "query"
    /\ sent[t] = Len(pipe[t])
    /\ outcome' = [outcome EXCEPT ![t] = "ok"]
    /\ pc' = [pc EXCEPT ![t] = "unlock"]
    /\ UNCHANGED <<ctorVars, otherVars, priorFailures, connVars, rec, pipe, sent, encPub, encStream, lockAcq,
                   submitted, reports, wire, failures, queryPanics>>

\* the same with the result unwrapped instead of matched: Err panics under the lock
QueryErrUnwrapped(t) ==
    /\ pc[t] = "query"
    /\ outcome' = [outcome EXCEPT ![t] = "err"]
    /\ failures' = failures + 1
    /\ poisoned' = TRUE
    /\ lockHolder' = NoThread
    /\ pc' = [pc EXCEPT ![t] = "panicked"]
    /\ UNCHANGED <<ctorVars, otherVars, priorFailures, rec, pipe, sent, encPub, encStream,
                   lockAcq, submitted, reports, wire, queryPanics>>

\* pipe.query returns Err(e): the if-let matches, the guard temporary is alive
QueryErr(t) ==
    /\ pc[t] = "query"
    /\ outcome' = [outcome EXCEPT ![t] = "err"]
    /\ failures' = failures + 1
    /\ pc' = [pc EXCEPT ![t] = "report"]
    /\ UNCHANGED <<ctorVars, otherVars, priorFailures, connVars, rec, pipe, sent, encPub, encStream, lockAcq,
                   submitted, reports, wire, queryPanics>>

\* the connection panics inside pipe.query: unwinding drops the guard and
\* poisons the Mutex
QueryPanic(t) ==
    /\ pc[t] = "query"
    /\ outcome' = [outcome EXCEPT ![t] = "panic"]
    /\ queryPanics' = queryPanics + 1
    /\ poisoned' = TRUE
    /\ lockHolder' = NoThread
    /\ pc' = [pc EXCEPT ![t] = "panicked"]
    /\ UNCHANGED <<ctorVars, otherVars, priorFailures, rec, pipe, sent, encPub, encStream, lockAcq,
                   submitted, reports, wire, failures>>

\* eprintln!("Error logging to Redis: {e}") inside the if-let body
Report(t) ==
    /\ pc[t] = "report"
    /\ reports' = [reports EXCEPT ![t] = @ + 1]
    /\ pc' = [pc EXCEPT ![t] = "unlock"]
    /\ UNCHANGED <<ctorVars, otherVars, priorFailures, connVars, rec, pipe, sent, encPub, encStream, lockAcq,
                   submitted, outcome, wire, failures, queryPanics>>

\* end of the if-let statement: the MutexGuard temporary is dropped, log returns
LogReturnKeepingLock(t) ==
    /\ pc[t] = "unlock"
    /\ pc' = [pc EXCEPT ![t] = "returned"]
    /\ UNCHANGED <<ctorVars, otherVars, priorFailures, connVars, rec, pipe, sent, encPub,
                   encStream, lockAcq, submitted, outcome, reports, wire, failures,
                   queryPanics>>

LogReturn(t) ==
    /\ pc[t] = "unlock"
    /\ lockHolder' = NoThread
    /\ pc' = [pc EXCEPT ![t] = "returned"]
    /\ UNCHANGED <<ctorVars, otherVars, priorFailures, poisoned, rec, pipe, sent, encPub, encStream, lockAcq,
                   submitted, outcome, reports, wire, failures, queryPanics>>

(* -------------------------- specification ----------------------------- *)
Next ==
    \/ \E cs \in ConnectionStrs, c \in ChannelLists : with_pubsub(cs, c)
    \/ \E cs \in ConnectionStrs, s \in StreamLists : with_streams(cs, s)
    \/ \E cs \in ConnectionStrs, c \in ChannelLists, s \in StreamLists :
          with_pubsub_and_streams(cs, c, s)
    \/ \E cs \in ConnectionStrs,
          c \in {None} \cup {Some(l) : l \in ChannelLists},
          s \in {None} \cup {Some(l) : l \in StreamLists} : TempNew(cs, c, s)
    \/ TempBuild
    \/ \E c \in {None} \cup {Some(l) : l \in ChannelLists},
          s \in {None} \cup {Some(l) : l \in StreamLists} : ConfigNew(c, s)
    \/ \E lvl \in DispatchFilters : LoggerNew(lvl)
    \/ \E t \in Threads, lvl \in DispatchLevels : LogEnter(t, lvl)
    \/ \E t \in Threads : PipePubSub(t)
    \/ \E t \in Threads : PipeStreams(t)
    \/ \E t \in Threads : Lock(t)
    \/ \E t \in Threads : QuerySend(t)
    \/ \E t \in Threads : QueryOk(t)
    \/ \E t \in Threads : QueryErr(t)
    \/ \E t \in Threads : QueryPanic(t)
    \/ \E t \in Threads : Report(t)
    \/ \E t \in Threads : LogReturn(t)

Spec == Init /\ [][Next]_vars

(* ------------------- Log::enabled called directly --------------------- *)
\* the state after RedisLogger::new(lvl, config) for any threshold
InitEnabled ==
    /\ temp = None
    /\ config = Some(RedisLoggerConfigNew(Some(NameList("channel", 1)), None))
    /\ level \in {Some(f) : f \in LevelFilters}
    /\ ctorPanic = FALSE
    /\ NoCallsYet
    /\ NoEncoding
    /\ fb = FluentNew
    /\ fbResult = None
    /\ supplied = None
    /\ lastSupplied = NothingSupplied

\* a thread calls logger.enabled(metadata) with metadata.level() = lvl
EnabledCall(t, lvl) ==
    /\ enabledCall' = [enabledCall EXCEPT ![t] = <<lvl, Enabled(lvl, Unwrap(level))>>]
    /\ UNCHANGED <<ctorVars, connVars, callVars, fb, fbResult, lastSupplied, lastFlush, encVars>>

NextEnabled == \E t \in Threads, lvl \in Levels : EnabledCall(t, lvl)

SpecEnabled == InitEnabled /\ [][NextEnabled]_vars

(* ---------------- Log::flush and Log::log on one logger ---------------- *)
\* the state after RedisLogger::new(lvl, config) on a configuration with one
\* channel and one stream
InitLogger ==
    /\ temp = None
    /\ config = Some(RedisLoggerConfigNew(Some(NameList("channel", 1)),
                                          Some(NameList("stream", 1))))
    /\ level \in {Some(f) : f \in DispatchFilters}
    /\ ctorPanic = FALSE
    /\ NoCallsYet
    /\ NoEncoding
    /\ fb = FluentNew
    /\ fbResult = None
    /\ supplied = Some([channels |-> Some(NameList("channel", 1)),
                        streams |-> Some(NameList("stream", 1))])
    /\ lastSupplied = NothingSupplied

\* a thread is outside log and can call another method of the logger
OutsideLog(t) == pc[t] \in {"idle", "returned"}

\* the same, acquiring the connection lock as log does
FlushLocking(t) ==
    /\ OutsideLog(t)
    /\ MutexAvailable /\ ~poisoned
    /\ lastFlush' = Some([holder |-> lockHolder, poisoned |-> poisoned])
    /\ UNCHANGED <<ctorVars, connVars, callVars, enabledCall, fb, fbResult,
                   lastSupplied, encVars>>

\* fn flush(&self) {}: the body is empty; lastFlush notes the state of the
\* connection Mutex the call met
Flush(t) ==
    /\ OutsideLog(t)
    /\ lastFlush' = Some([holder |-> lockHolder, poisoned |-> poisoned])
    /\ UNCHANGED <<ctorVars, connVars, callVars, enabledCall, fb, fbResult,
                   lastSupplied, encVars>>

\* the steps of Log::log
NextLog ==
    \/ \E t \in Threads, lvl \in DispatchLevels : LogEnter(t, lvl)
    \/ \E t \in Threads : PipePubSub(t)
    \/ \E t \in Threads : PipeStreams(t)
    \/ \E t \in Threads : Lock(t)
    \/ \E t \in Threads : QuerySend(t)
    \/ \E t \in Threads : QueryOk(t)
    \/ \E t \in Threads : QueryErr(t)
    \/ \E t \in Threads : QueryPanic(t)
    \/ \E t \in Threads : Report(t)
    \/ \E t \in Threads : LogReturn(t)

NextFlush ==
    \/ NextLog
    \/ \E t \in Threads : Flush(t)

SpecFlush == InitLogger /\ [][NextFlush]_vars

\* Scheduling: a thread inside log keeps running (weak fairness of its local
\* steps), the call on the connection terminates (weak fairness of its
\* outcomes), and the lock is fair: a thread that can acquire it again and
\* again does acquire it (strong fairness of Lock).
LogFairness ==
    \A t \in Threads :
        /\ WF_vars(PipePubSub(t))
        /\ WF_vars(PipeStreams(t))
        /\ SF_vars(Lock(t))
        /\ WF_vars(QuerySend(t))
        /\ WF_vars(QueryOk(t) \/ QueryErr(t) \/ QueryPanic(t))
        /\ WF_vars(Report(t))
        /\ WF_vars(LogReturn(t))

SpecLive == InitLogger /\ [][NextLog]_vars /\ LogFairness

(* ------------------- the default encoders (defaults.rs) --------------- *)
\* the records handed to the encoders: every level, and each optional
\* attribute absent or present
RecordArgs == {"Test message", "Error message"}
RecordPaths == {None, Some("my_module"), Some("null")}
RecordFiles == {None, Some("my_file.rs"), Some("null")}
RecordLines == {None, Some(0), Some(7), Some(42), Some(1000)}
Records ==
    [level : Levels, args : RecordArgs, module_path : RecordPaths,
     target : {"my_target"}, file : RecordFiles, line : RecordLines]

\* Level::as_str
LevelAsStr(l) ==
    CASE l = "Error" -> "ERROR"
      [] l = "Warn"  -> "WARN"
      [] l = "Info"  -> "INFO"
      [] l = "Debug" -> "DEBUG"
      [] l = "Trace" -> "TRACE"

\* a byte string is a sequence of chunks: a str is one chunk
IntoBytes(str) == <<str>>
\* Option::unwrap_or
UnwrapOr(o, default) == IF IsSome(o) THEN Unwrap(o) ELSE default

\* u32::to_string: the decimal digits, most significant first
DecimalDigits == <<"0", "1", "2", "3", "4", "5", "6", "7", "8", "9">>
RECURSIVE U32ToString(_)
U32ToString(n) ==
    IF n < 10 THEN <<DecimalDigits[n + 1]>>
    ELSE U32ToString(n \div 10) \o <<DecimalDigits[(n % 10) + 1]>>

\* DefaultStreamEncoder::encode
DefaultStreamEncoderEncodeLineNull(record) ==
    << <<"level", IntoBytes(LevelAsStr(record.level))>>,
       <<"args", IntoBytes(record.args)>>,
       <<"module_path", IntoBytes(UnwrapOr(record.module_path, "null"))>>,
       <<"target", IntoBytes(record.target)>>,
       <<"file", IntoBytes(UnwrapOr(record.file, "null"))>>,
       <<"line", IF IsSome(record.line) THEN U32ToString(Unwrap(record.line))
                 ELSE IntoBytes("null")>> >>

DefaultStreamEncoderEncode(record) ==
    << <<"level", IntoBytes(LevelAsStr(record.level))>>,
       <<"args", IntoBytes(record.args)>>,
       <<"module_path", IntoBytes(UnwrapOr(record.module_path, "null"))>>,
       <<"target", IntoBytes(record.target)>>,
       <<"file", IntoBytes(UnwrapOr(record.file, "null"))>>,
       <<"line", U32ToString(UnwrapOr(record.line, 0))>> >>

\* serde_json::Value
JsonNull == [kind |-> "null", str |-> "", num |-> 0]
JsonString(str) == [kind |-> "string", str |-> str, num |-> 0]
JsonNumber(n) == [kind |-> "number", str |-> "", num |-> n]
\* Serialize for Option<String> and Option<u32>: None is null
JsonOfStr(o) == IF IsSome(o) THEN JsonString(Unwrap(o)) ELSE JsonNull
JsonOfU32(o) == IF IsSome(o) THEN JsonNumber(Unwrap(o)) ELSE JsonNull

\* serde_json::json!({ .. }) of the six attributes
JsonObject(record) ==
    [level |-> JsonString(LevelAsStr(record.level)),
     args |-> JsonString(record.args),
     module_path |-> JsonOfStr(record.module_path),
     target |-> JsonString(record.target),
     file |-> JsonOfStr(record.file),
     line |-> JsonOfU32(record.line)]

\* the order in which serde_json writes the keys of an object (sorted)
JsonKeyOrder == <<"args", "file", "level", "line", "module_path", "target">>
\* the bytes of one value: a quoted string, a decimal number or null
JsonRender(v) ==
    CASE v.kind = "string" -> <<"\"", v.str, "\"">>
      [] v.kind = "number" -> U32ToString(v.num)
      [] v.kind = "null"   -> <<"null">>
\* Value::to_string: the key/value pairs of the object in key order
JsonToString(obj) ==
    LET keys == SelectSeq(JsonKeyOrder, LAMBDA k : k \in DOMAIN obj)
    IN [i \in 1..Len(keys) |-> <<keys[i], JsonRender(obj[keys[i]])>>]

\* DefaultPubSubEncoder::encode
DefaultPubSubEncoderEncode(record) == JsonToString(JsonObject(record))

\* any record may be handed to the encoders
InitEncode ==
    /\ temp = None
    /\ config = None
    /\ level = None
    /\ ctorPanic = FALSE
    /\ NoCallsYet
    /\ fb = FluentNew
    /\ fbResult = None
    /\ supplied = None
    /\ lastSupplied = NothingSupplied
    /\ encIn \in {Some(r) : r \in Records}
    /\ encPubOut = None
    /\ encStreamOut = None

\* encoder.encode(&record) on a DefaultPubSubEncoder
PubSubEncoderEncode ==
    /\ encPubOut = None
    /\ encPubOut' = Some(DefaultPubSubEncoderEncode(Unwrap(encIn)))
    /\ UNCHANGED <<ctorVars, connVars, callVars, enabledCall, fb, fbResult,
                   lastSupplied, lastFlush, encIn, encStreamOut>>

\* encoder.encode(&record) on a DefaultStreamEncoder
StreamEncoderEncode ==
    /\ encStreamOut = None
    /\ encStreamOut' = Some(DefaultStreamEncoderEncode(Unwrap(encIn)))
    /\ UNCHANGED <<ctorVars, connVars, callVars, enabledCall, fb, fbResult,
                   lastSupplied, lastFlush, encIn, encPubOut>>

NextEncode ==
    \/ PubSubEncoderEncode
    \/ StreamEncoderEncode

SpecEncode == InitEncode /\ [][NextEncode]_vars

(* --------- the fluent builder of lib_tests.rs (from the spec) --------- *)
MaxConns == 2
Connections == 1..MaxConns
EncoderIds == {"encoder1", "encoder2"}
Reverse(l) == [i \in 1..Len(l) |-> l[Len(l) + 1 - i]]
FluentLists(kind) ==
    {NameList(kind, n) : n \in 0..MaxNames} \cup {Reverse(NameList(kind, n)) : n \in 0..MaxNames}

FluentOk(b) ==
    [ok |-> TRUE, err |-> "",
     config |-> Some([connection |-> Unwrap(b.redis_conn),
                      channels |-> b.channels, streams |-> b.streams])]
FluentErr(e) == [ok |-> FALSE, err |-> e, config |-> None]

\* Some((list, encoder)) with an empty list
EmptyList(slot) == IsSome(slot) /\ Len(Unwrap(slot)[1]) = 0

FluentValidateChannelsFirst(b) ==
    IF b.channels = None /\ b.streams = None THEN FluentErr("ChannelNotSet")
    ELSE IF EmptyList(b.channels) \/ EmptyList(b.streams) THEN FluentErr("ChannelNotSet")
    ELSE IF b.redis_conn = None THEN FluentErr("ClientNotSet")
    ELSE FluentOk(b)
\* build(): connection present, then a mode present, then every list non-empty
FluentValidate(b) ==
    IF b.redis_conn = None THEN FluentErr("ClientNotSet")
    ELSE IF b.channels = None /\ b.streams = None THEN FluentErr("ChannelNotSet")
    ELSE IF EmptyList(b.channels) \/ EmptyList(b.streams) THEN FluentErr("ChannelNotSet")
    ELSE FluentOk(b)

\* builder.with_connection(conn)
FluentWithConnection(conn) ==
    /\ fbResult = None
    /\ fb' = [fb EXCEPT !.redis_conn = Some(conn)]
    /\ lastSupplied' = [lastSupplied EXCEPT !.redis_conn = Some(conn)]
    /\ UNCHANGED <<ctorVars, connVars, callVars, enabledCall, fbResult, lastFlush, encVars>>

\* builder.with_pubsub(channels, encoder)
FluentWithPubsubUnion(channels, encoder) ==
    /\ fbResult = None
    /\ fb' = [fb EXCEPT !.channels =
                 IF IsSome(@)
                 THEN LET old == Unwrap(@)[1]
                          seen(x) == \E i \in 1..Len(old) : old[i] = x
                      IN Some(<<old \o SelectSeq(channels, LAMBDA x : ~seen(x)), encoder>>)
                 ELSE Some(<<channels, encoder>>)]
    /\ lastSupplied' = [lastSupplied EXCEPT !.channels = Some(<<channels, encoder>>),
                                            !.earlier_channels = lastSupplied.channels]
    /\ UNCHANGED <<ctorVars, connVars, callVars, enabledCall, fbResult, lastFlush, encVars>>

FluentWithPubsub(channels, encoder) ==
    /\ fbResult = None
    /\ fb' = [fb EXCEPT !.channels = Some(<<channels, encoder>>)]
    /\ lastSupplied' = [lastSupplied EXCEPT !.channels = Some(<<channels, encoder>>),
                                            !.earlier_channels = lastSupplied.channels]
    /\ UNCHANGED <<ctorVars, connVars, callVars, enabledCall, fbResult, lastFlush, encVars>>

\* builder.with_streams(streams, encoder)
FluentWithStreams(streams, encoder) ==
    /\ fbResult = None
    /\ fb' = [fb EXCEPT !.streams = Some(<<streams, encoder>>)]
    /\ lastSupplied' = [lastSupplied EXCEPT !.streams = Some(<<streams, encoder>>)]
    /\ UNCHANGED <<ctorVars, connVars, callVars, enabledCall, fbResult, lastFlush, encVars>>

\* builder.build(); fb keeps the slots as they were when build was called
FluentBuild ==
    /\ fbResult = None
    /\ fbResult' = Some(FluentValidate(fb))
    /\ UNCHANGED <<ctorVars, connVars, callVars, enabledCall, fb, lastSupplied, lastFlush, encVars>>

NextFluent ==
    \/ \E conn \in Connections : FluentWithConnection(conn)
    \/ \E c \in FluentLists("channel"), e \in EncoderIds : FluentWithPubsub(c, e)
    \/ \E l \in FluentLists("stream"), e \in EncoderIds : FluentWithStreams(l, e)
    \/ FluentBuild

SpecFluent == Init /\ [][NextFluent]_vars

(* ============================== claims ================================ *)
\* the order of the claims, written independently of LevelAsUsize:
\* least severe first
SeverityOrder == <<"Trace", "Debug", "Info", "Warn", "Error">>
Rank(s) == CHOOSE i \in 1..Len(SeverityOrder) : SeverityOrder[i] = s
AtLeastAsSevere(s, threshold) == threshold # "Off" /\ Rank(s) >= Rank(threshold)

\* C2: enabled(s) under threshold t returns true iff s is at least as severe
\* as t in Error > Warn > Info > Debug > Trace; Off enables nothing, Trace
\* enables everything.
C2_EnabledIffAtLeastAsSevere ==
    \A t \in Threads :
        enabledCall[t] # <<>> =>
            (enabledCall[t][2] <=> AtLeastAsSevere(enabledCall[t][1], Unwrap(level)))

\* C2 witness: under one threshold, one call was enabled at exactly the
\* threshold's severity and another call was disabled.
C2_Witness ==
    \E t, u \in Threads :
        /\ enabledCall[t] # <<>> /\ enabledCall[t][2] /\ Some(enabledCall[t][1]) = level
        /\ enabledCall[u] # <<>> /\ ~enabledCall[u][2]

\* a configuration as the data model requires it: a mode present, no empty list
ValidConfig(c) ==
    /\ IsSome(c.channels) \/ IsSome(c.streams)
    /\ \A l \in c.channels : Len(l) > 0
    /\ \A l \in c.streams : Len(l) > 0

\* C9: every RedisLoggerConfig obtained through a public construction path
\* has at least one of channels/streams present and no present list empty.
C9_EveryConfigValid == \A c \in config : ValidConfig(c)

RecEnabled(t) == AtLeastAsSevere(rec[t].level, Unwrap(level))
InCall(t) == rec[t].id # 0
CountOp(batch, op) == Cardinality({i \in 1..Len(batch) : batch[i].op = op})
HoldsGuard(t) == pc[t] \in {"query", "report", "unlock"}
BothModes ==
    /\ IsSome(config)
    /\ \E c \in TheConfig.channels : Len(c) >= 1
    /\ \E l \in TheConfig.streams : Len(l) >= 1

\* C1: with channel list C and stream list S, both non-empty, a call of log
\* on an enabled record that returns has invoked each encoder exactly once
\* and submitted exactly one batch of |C| publishes and |S| appends, whether
\* the submission succeeded or failed; no call ever encodes or submits twice.
C1_OneEncodeOneBatch ==
    \A t \in Threads :
        /\ encPub[t] <= 1 /\ encStream[t] <= 1 /\ Len(submitted[t]) <= 1
        /\ (pc[t] = "returned" /\ InCall(t) /\ RecEnabled(t) /\ BothModes) =>
              /\ encPub[t] = 1
              /\ encStream[t] = 1
              /\ Len(submitted[t]) = 1
              /\ CountOp(submitted[t][1], "PUBLISH") = Len(Unwrap(TheConfig.channels))
              /\ CountOp(submitted[t][1], "XADD") = Len(Unwrap(TheConfig.streams))
              /\ Len(submitted[t][1]) =
                    Len(Unwrap(TheConfig.channels)) + Len(Unwrap(TheConfig.streams))

\* C1 witness: a call with two channels and two streams returned after its
\* one submission failed.
C1_Witness ==
    \E t \in Threads :
        /\ pc[t] = "returned" /\ InCall(t) /\ RecEnabled(t) /\ BothModes
        /\ outcome[t] = "err"
        /\ Len(Unwrap(TheConfig.channels)) = 2 /\ Len(Unwrap(TheConfig.streams)) = 2

\* C3: a call of log with a record that is not enabled is a no-op: it has
\* returned with no encoder invoked, no lock acquisition, an empty pipeline
\* and no batch submitted.
C3_DisabledIsNoOp ==
    \A t \in Threads :
        (InCall(t) /\ ~RecEnabled(t)) =>
            /\ pc[t] = "returned"
            /\ encPub[t] = 0 /\ encStream[t] = 0
            /\ lockAcq[t] = 0 /\ lockHolder # t
            /\ pipe[t] = <<>> /\ submitted[t] = <<>> /\ sent[t] = 0
            /\ outcome[t] = "none" /\ reports[t] = 0

\* C3 witness: a disabled record was logged while another thread was inside
\* its submission.
C3_Witness ==
    \E t, u \in Threads :
        /\ InCall(t) /\ ~RecEnabled(t) /\ pc[t] = "returned"
        /\ pc[u] = "query"

\* C4: a call whose submission failed reports the error once and returns
\* without panicking; as long as no transport call panicked, the lock is not
\* poisoned and no thread has panicked, the lock is free when nobody is
\* inside a submission, and every returned call on an enabled record made
\* after earlier failures still submitted its batch.
C4_FailureDoesNotLatch ==
    /\ \A t \in Threads :
          /\ outcome[t] = "err" => pc[t] \in {"report", "unlock", "returned"}
          /\ (outcome[t] = "err" /\ pc[t] \in {"unlock", "returned"}) => reports[t] = 1
          /\ (pc[t] = "returned" /\ InCall(t) /\ RecEnabled(t) /\ priorFailures[t] > 0) =>
                Len(submitted[t]) = 1
    /\ queryPanics = 0 => (~poisoned /\ \A t \in Threads : pc[t] # "panicked")
    /\ (\A t \in Threads : ~HoldsGuard(t)) => lockHolder = NoThread

\* C4 witness: a call entered after an earlier submission had failed has
\* submitted its batch successfully and returned.
C4_Witness ==
    \E t \in Threads :
        /\ priorFailures[t] > 0
        /\ pc[t] = "returned" /\ outcome[t] = "ok" /\ Len(submitted[t]) = 1
        /\ Len(submitted[t][1]) > 0

\* C5: at most one thread is inside a batch submission at any moment, that
\* thread holds the connection lock, and the commands of one call's batch
\* are contiguous on the connection (a command of a call that has a later
\* command on the connection is directly followed by a command of that call).
C5_SubmissionsSerialized ==
    /\ Cardinality({t \in Threads : HoldsGuard(t)}) <= 1
    /\ \A t \in Threads : HoldsGuard(t) => lockHolder = t
    /\ \A i \in 1..Len(wire), k \in 1..Len(wire) :
          (i < k /\ wire[i].call = wire[k].call) => wire[i + 1].call = wire[i].call

\* C5 witness: one thread is in the middle of sending its batch while
\* another thread with a non-empty batch waits for the lock.
C5_Witness ==
    \E t, u \in Threads :
        /\ t # u
        /\ pc[t] = "query" /\ sent[t] >= 1 /\ sent[t] < Len(pipe[t])
        /\ pc[u] = "lock" /\ Len(pipe[u]) >= 1

\* the encoder invocations the configuration asks for
ModesEncoded(t) ==
    /\ encPub[t] = (IF IsSome(TheConfig.channels) THEN 1 ELSE 0)
    /\ encStream[t] = (IF IsSome(TheConfig.streams) THEN 1 ELSE 0)

\* C6: a thread that is at an encoder does not hold the connection lock and
\* has not asked for it, and a thread that holds the lock has completed both
\* encoder invocations.
C6_EncodeBeforeLock ==
    \A t \in Threads :
        /\ pc[t] \in {"pubsub", "streams"} => (lockHolder # t /\ lockAcq[t] = 0)
        /\ (pc[t] = "lock" \/ HoldsGuard(t)) => ModesEncoded(t)

\* C6 witness: one thread is at its encoder while another thread is inside
\* its submission.
C6_Witness ==
    \E t, u \in Threads :
        /\ pc[t] \in {"pubsub", "streams"}
        /\ pc[u] = "query" /\ lockHolder = u

\* C7: the lock is held only during the pipelined network call; it has been
\* released before the error of a failed submission is reported.
C7_ReportWithoutLock ==
    \A t \in Threads : pc[t] = "report" => lockHolder # t

\* C8 (step form): once the lock is poisoned it stays poisoned, nothing more
\* reaches the connection, no thread enters a submission, a thread arriving
\* at the lock panics, and only calls on disabled records return; and the
\* lock is poisoned only if a transport call panicked under it.
C8_Step ==
    /\ poisoned =>
          /\ poisoned'
          /\ wire' = wire
          /\ \A t \in Threads :
                /\ ~HoldsGuard(t) /\ ~HoldsGuard(t)'
                /\ Len(submitted'[t]) <= Len(submitted[t])
                /\ (pc[t] = "lock" /\ pc'[t] # "lock") =>
                      (pc'[t] = "panicked" /\ outcome'[t] = "none")
                /\ (pc'[t] = "returned" /\ rec'[t] # rec[t]) => ~RecEnabled(t)'
                /\ (pc'[t] = "returned" /\ pc[t] # "returned") => rec'[t] # rec[t]
    /\ (queryPanics' = 0) => ~poisoned'

\* C8: once a holder of the connection lock has panicked, every later call
\* of log on an enabled record panics at the lock and submits nothing, the
\* poisoning is never recovered from, and a transport error alone never
\* poisons the lock.
C8_PoisonIsFatal == [][C8_Step]_vars

\* C8 witness: after a transport call panicked under the lock, another
\* thread logging an enabled record panicked at the lock without submitting.
C8_Witness ==
    /\ poisoned
    /\ queryPanics = 1
    /\ \E t \in Threads :
          /\ pc[t] = "panicked" /\ InCall(t) /\ RecEnabled(t)
          /\ lockAcq[t] = 1 /\ outcome[t] = "none" /\ submitted[t] = <<>>

(* ----------------------- claims on construction ----------------------- *)
\* C11: a builder function given an empty list is rejected with a returned
\* ChannelNotSet: the call does not panic, and no configuration with an
\* absent or empty mode ever exists.
C11_EmptyListIsReturnedError ==
    /\ [][NothingBuilt => ~ctorPanic']_vars
    /\ [](\A c \in config : ValidConfig(c))

\* C14: building from a connection string that cannot be parsed or opened
\* does not panic (the failure is returned as a RedisError value).
C14_ConnectionFailureIsReturned == [][IsSome(temp) => ~ctorPanic']_vars

\* a list argument that passes check_args
NonEmptyLists(a) ==
    /\ IsSome(a.channels) \/ IsSome(a.streams)
    /\ \A l \in a.channels \cup a.streams : Len(l) # 0

\* the configuration holds what the construction call was given
HoldsSupplied ==
    \A c \in config : \A a \in supplied :
        c.channels = a.channels /\ c.streams = a.streams

\* the connection Mutex of a configuration no thread has used yet
FreshLock ==
    (IsSome(config) /\ \A t \in Threads : pc[t] = "idle") =>
        (MutexAvailable /\ ~poisoned)

\* a builder function given non-empty lists returns, and build() of a
\* connection string that opens returns a configuration
BuildSucceeds ==
    /\ (NothingBuilt /\ IsSome(supplied') /\ NonEmptyLists(Unwrap(supplied')))
         => ~ctorPanic'
    /\ (IsSome(temp) /\ Unwrap(temp).connection_str = "valid" /\ temp' = None)
         => (IsSome(config') /\ ~ctorPanic')

\* C12: building with a connection and non-empty lists succeeds, and the
\* configuration holds exactly the supplied lists, in order, with an
\* unsupplied mode absent and the connection lock free and not poisoned.
C12_BuildHoldsSupplied ==
    /\ [](HoldsSupplied /\ FreshLock)
    /\ [][BuildSucceeds]_vars

C12_Witness ==
    /\ IsSome(config)
    /\ level = None
    /\ supplied = Some([channels |-> Some(NameList("channel", MaxNames)),
                        streams |-> None])
    /\ TheConfig.channels = Some(NameList("channel", MaxNames))
    /\ TheConfig.streams = None
    /\ lockHolder = NoThread /\ ~poisoned

C17_BatchPayloads ==
    \A t \in Threads : \A k \in 1..Len(submitted[t]) :
        LET batch == submitted[t][k]
            C == IF IsSome(TheConfig.channels) THEN Unwrap(TheConfig.channels) ELSE <<>>
            S == IF IsSome(TheConfig.streams) THEN Unwrap(TheConfig.streams) ELSE <<>>
        IN /\ Len(batch) = Len(C) + Len(S)
           /\ \A i \in 1..Len(C) :
                 /\ batch[i].op = "PUBLISH"
                 /\ batch[i].key = C[i]
                 /\ batch[i].arg = PubSubEncode(rec[t], 1)
           /\ \A j \in 1..Len(S) :
                 /\ batch[Len(C) + j].op = "XADD"
                 /\ batch[Len(C) + j].key = S[j]
                 /\ batch[Len(C) + j].id = "*"
                 /\ batch[Len(C) + j].arg = StreamEncode(rec[t], 1)

\* a call with two channels and two streams submitted its batch and the
\* connection has received all four commands
C17_Witness ==
    \E t \in Threads :
        /\ BothModes
        /\ Len(Unwrap(TheConfig.channels)) = 2 /\ Len(Unwrap(TheConfig.streams)) = 2
        /\ Len(submitted[t]) = 1
        /\ outcome[t] = "ok"
        /\ sent[t] = Len(submitted[t][1])

\* the configuration came from a construction call given channels only
PubSubOnly ==
    /\ IsSome(config)
    /\ \E a \in supplied : a.streams = None /\ \E l \in a.channels : Len(l) # 0
\* the configuration came from a construction call given streams only
StreamsOnly ==
    /\ IsSome(config)
    /\ \E a \in supplied : a.channels = None /\ \E l \in a.streams : Len(l) # 0

\* C19: a configuration built from channels only has no stream mode: log
\* never invokes a stream encoder (so the panic!() of DummyStreamEncoder is
\* never executed) and a returned call on an enabled record has submitted one
\* batch of |C| publishes and no append; symmetrically for a configuration
\* built from streams only and DummyPubSubEncoder.
C19_SingleModeSkipsOtherEncoder ==
    /\ PubSubOnly =>
          /\ TheConfig.streams = None
          /\ \A t \in Threads :
                /\ encStream[t] = 0
                /\ (pc[t] = "returned" /\ InCall(t) /\ RecEnabled(t)) =>
                      /\ Len(submitted[t]) = 1
                      /\ CountOp(submitted[t][1], "PUBLISH") = Len(Unwrap(TheConfig.channels))
                      /\ CountOp(submitted[t][1], "XADD") = 0
    /\ StreamsOnly =>
          /\ TheConfig.channels = None
          /\ \A t \in Threads :
                /\ encPub[t] = 0
                /\ (pc[t] = "returned" /\ InCall(t) /\ RecEnabled(t)) =>
                      /\ Len(submitted[t]) = 1
                      /\ CountOp(submitted[t][1], "XADD") = Len(Unwrap(TheConfig.streams))
                      /\ CountOp(submitted[t][1], "PUBLISH") = 0

\* one call returned on a channels-only configuration of MaxNames channels
C19_Witness ==
    /\ PubSubOnly
    /\ Len(Unwrap(TheConfig.channels)) = MaxNames
    /\ \E t \in Threads :
          /\ pc[t] = "returned" /\ InCall(t) /\ RecEnabled(t)
          /\ encPub[t] = 1 /\ encStream[t] = 0
          /\ CountOp(submitted[t][1], "PUBLISH") = MaxNames

(* -------------------- claims on flush and the lock -------------------- *)
\* a step that is a call of flush leaves everything but its own note unchanged
FlushChangesNothing ==
    (lastFlush' # lastFlush) =>
        UNCHANGED <<ctorVars, connVars, callVars, enabledCall, fb, fbResult,
                    lastSupplied, encVars>>

\* C15: flush is a no-op in every state: a thread outside log can always
\* complete a call of flush, also while another thread holds the connection
\* lock and after the lock was poisoned, and the call acquires no lock, runs
\* no encoder, submits nothing and does not panic.
C15_FlushIsNoOp ==
    /\ [](\A t \in Threads : OutsideLog(t) => ENABLED Flush(t))
    /\ [][FlushChangesNothing]_vars

\* flush was called while another thread held the connection lock inside
\* pipe.query, and that thread still holds it
C15_Witness ==
    \E t \in Threads :
        /\ pc[t] = "query"
        /\ lockHolder = t
        /\ lastFlush = Some([holder |-> t, poisoned |-> FALSE])

\* the lock is held only by a thread between its lock() and the end of the
\* if-let statement
LockReleasedOnReturn ==
    /\ \A t \in Threads : (lockHolder = t) => HoldsGuard(t)
    /\ (\A t \in Threads : ~HoldsGuard(t)) => lockHolder = NoThread

\* C18: the connection lock is released on every path out of log (Ok, Err
\* with its report, panic under the lock) and is free when no call is
\* submitting; under a fair lock and a terminating call on the connection,
\* while no holder panics, every call of log eventually returns.
C18_LockReleasedAndLogReturns ==
    /\ []LockReleasedOnReturn
    /\ [](queryPanics = 0) =>
          \A t \in Threads : (pc[t] # "idle") ~> (pc[t] = "returned")

\* every thread has returned from log, one of them after a failed
\* submission and its report, and the lock is free
C18_Witness ==
    /\ \A t \in Threads : pc[t] = "returned" /\ RecEnabled(t)
    /\ \E t \in Threads : outcome[t] = "err" /\ reports[t] = 1
    /\ lockHolder = NoThread

(* --------------------- claims on the default encoders ---------------- *)
\* the six attribute names, in the order the stream encoder lists them
FieldNames == <<"level", "args", "module_path", "target", "file", "line">>
FieldNameSet == {FieldNames[i] : i \in 1..Len(FieldNames)}

\* reading a decimal number back from its bytes
IsDecimal(bytes) ==
    /\ Len(bytes) > 0
    /\ \A i \in 1..Len(bytes) : \E d \in 0..9 : DecimalDigits[d + 1] = bytes[i]
DigitValue(b) == CHOOSE d \in 0..9 : DecimalDigits[d + 1] = b
RECURSIVE ParseDecimal(_)
ParseDecimal(bytes) ==
    IF Len(bytes) = 0 THEN 0
    ELSE ParseDecimal(SubSeq(bytes, 1, Len(bytes) - 1)) * 10 + DigitValue(bytes[Len(bytes)])
IsNumber(bytes, n) == IsDecimal(bytes) /\ ParseDecimal(bytes) = n

\* the stream encoding of record r: six fields in order, absent module_path
\* and file as "null", absent line as "0", present values verbatim
StreamSchema(r, out) ==
    /\ [i \in 1..Len(out) |-> out[i][1]] = FieldNames
    /\ out[1][2] = <<LevelAsStr(r.level)>>
    /\ out[2][2] = <<r.args>>
    /\ out[3][2] = IF r.module_path = None THEN <<"null">> ELSE <<Unwrap(r.module_path)>>
    /\ out[4][2] = <<r.target>>
    /\ out[5][2] = IF r.file = None THEN <<"null">> ELSE <<Unwrap(r.file)>>
    /\ IF r.line = None THEN out[6][2] = <<"0">> ELSE IsNumber(out[6][2], Unwrap(r.line))

\* a JSON string holding s, and JSON null
IsJsonString(bytes, s) == bytes = <<"\"", s, "\"">>
IsJsonNull(bytes) == bytes = <<"null">>

\* the pub/sub encoding of record r: an object of exactly the six keys, each
\* once, absent attributes as JSON null, present values verbatim
PubSubSchema(r, out) ==
    /\ Len(out) = Len(FieldNames)
    /\ {out[i][1] : i \in 1..Len(out)} = FieldNameSet
    /\ \A i \in 1..Len(out) :
          LET k == out[i][1]
              v == out[i][2]
          IN /\ k = "level" => IsJsonString(v, LevelAsStr(r.level))
             /\ k = "args" => IsJsonString(v, r.args)
             /\ k = "target" => IsJsonString(v, r.target)
             /\ k = "module_path" =>
                   IF r.module_path = None THEN IsJsonNull(v)
                   ELSE IsJsonString(v, Unwrap(r.module_path))
             /\ k = "file" =>
                   IF r.file = None THEN IsJsonNull(v)
                   ELSE IsJsonString(v, Unwrap(r.file))
             /\ k = "line" =>
                   IF r.line = None THEN IsJsonNull(v)
                   ELSE IsNumber(v, Unwrap(r.line))

\* C16: for every record, whichever optional attributes are absent, the
\* default stream encoder returns the six fields level, args, module_path,
\* target, file, line in that order and the default pub/sub encoder an object
\* of exactly those six keys; an absent attribute is a placeholder, never
\* omitted (stream: "null", "null", "0"; pub/sub: JSON null), and a present
\* one is rendered verbatim.
C16_DefaultEncodersSchema ==
    \A r \in encIn :
        /\ \A out \in encStreamOut : StreamSchema(r, out)
        /\ \A out \in encPubOut : PubSubSchema(r, out)

\* both encoders have encoded a record with no module_path, file or line
C16_Witness ==
    /\ \E r \in encIn : r.module_path = None /\ r.file = None /\ r.line = None
    /\ IsSome(encStreamOut)
    /\ IsSome(encPubOut)

====
